---- MODULE Spec2Model ----
(***************************************************************************)
(* The regular-mode slice of the mode store (web/src/js/ducks/modes/       *)
(* regular.ts): a list of mode entries that is edited optimistically by    *)
(* three setter thunks and replaced by the backend's STATE_RECEIVE and     *)
(* STATE_UPDATE snapshots.                                                 *)
(*                                                                         *)
(* regular.ts holds the initial state, the three thunks and the slice's    *)
(* case table.  The helpers it imports (createModeUpdateThunk, addSetter,  *)
(* updateState from ./utils, parseRaw from ../../modes/regular) are        *)
(* modelled from the design document.                                      *)
(***************************************************************************)
EXTENDS Integers, Sequences, FiniteSets

\* Longest raw list a snapshot carries (and so the longest list stored).
MaxLen == 2
\* Most Mutation Requests in flight on the outbound channel when the backend
\* is not modelled.
MaxOutbox == 1
\* Most Mutation Requests in flight on the outbound channel at all.
MaxInFlight == 2
\* Most backend-side changes of the backend's list.
MaxReloads == 1
\* Number of distinct values Math.random() can return in the model.
NumIds == 2
\* Longest sequence of accepted setter calls that is followed call by call.
MaxCalls == 2

----------------------------------------------------------------------------
(* JavaScript values: a primitive with its typeof tag. *)

JsBool(b) == [t |-> "boolean", v |-> IF b THEN "true" ELSE "false"]
JsTrue == JsBool(TRUE)
JsFalse == JsBool(FALSE)
JsUndefined == [t |-> "undefined", v |-> ""]
JsHost == [t |-> "string", v |-> "127.0.0.1"]
JsPort == [t |-> "number", v |-> "8080"]

\* The range of Math.random(): any of its values may come out of any call.
UiIds == 1..NumIds

\* Action types of ../backendState (regular.ts line 1).
STATE_RECEIVE == "STATE_RECEIVE"
STATE_UPDATE == "STATE_UPDATE"

\* The three setter thunks (regular.ts lines 6-14), named by their type prefix.
setActive == "modes/regular/setActive"
setListenHost == "modes/regular/setListenHost"
setListenPort == "modes/regular/setListenPort"
Thunks == {setActive, setListenHost, setListenPort}

\* The value type each thunk is instantiated with:
\* boolean, string | undefined, number | undefined.
ThunkValues(thunk) ==
    CASE thunk = setActive -> {JsTrue, JsFalse}
      [] thunk = setListenHost -> {JsHost, JsUndefined}
      [] thunk = setListenPort -> {JsPort, JsUndefined}

\* The lifecycle action types createAsyncThunk derives from a type prefix.
Pending(thunk) == thunk \o "/pending"
Fulfilled(thunk) == thunk \o "/fulfilled"
Rejected(thunk) == thunk \o "/rejected"

\* The editable fields of a regular-mode entry.
Fields == {"active", "listen_host", "listen_port"}

\* A list entry (RegularState): the three fields and the client-side ui_id.
Entry(active, host, port, id) ==
    [active |-> active, listen_host |-> host, listen_port |-> port, ui_id |-> id]

\* regular.ts lines 16-21: one active entry without host or port, whose ui_id
\* is the value r that Math.random() returned when the module was loaded.
initialState(r) == <<Entry(JsTrue, JsUndefined, JsUndefined, r)>>

----------------------------------------------------------------------------
(* Raw backend data.  A raw entry has the three fields (an absent one reads *)
(* as undefined) and a field the client does not know.                      *)

Raw(active, host, port) ==
    [active |-> active, listen_host |-> host, listen_port |-> port,
     unknown |-> JsHost]

\* Well-formed raw entries the backend sends in the model.
GoodRaw ==
    { Raw(JsTrue, JsUndefined, JsUndefined),
      Raw(JsFalse, JsHost, JsPort) }

SeqsUpTo(S, n) == UNION { [1..k -> S] : k \in 0..n }

\* The raw lists a snapshot carries: every well-formed list of at most MaxLen
\* entries, and two lists with a bad entry (alone, and after a good one).
GoodLists == SeqsUpTo(GoodRaw, MaxLen)
BadLists ==
    { <<Raw(JsUndefined, JsHost, JsPort)>>,
      <<Raw(JsFalse, JsHost, JsPort), Raw(JsPort, JsUndefined, JsUndefined)>> }
RawLists == GoodLists \cup BadLists

\* parseRaw's validation: the required field active is present and a boolean.
WellFormed(raw) == raw.active.t = "boolean"

\* parseRaw(raw): the entry built from raw data.  Unknown fields are left out
\* and the ui_id is r, the value Math.random() returns for this entry.
parseRaw(raw, r) == Entry(raw.active, raw.listen_host, raw.listen_port, r)

----------------------------------------------------------------------------
(* Redux actions.  Every action has the same shape: its type, the arguments *)
(* of a setter thunk (meta.arg) and the data of a backend state event.      *)

NoData == [regular |-> <<>>]

ThunkAction(type, index, value) ==
    [type |-> type, index |-> index, value |-> value, data |-> NoData]

StateAction(type, rawList) ==
    [type |-> type, index |-> -1, value |-> JsUndefined,
     data |-> [regular |-> rawList]]

\* addSetter(builder, attribute, thunk): the case reducer for the thunk's
\* pending action writes the value into the attribute of the entry at the
\* index, in place.
addSetter(attribute, state, action) ==
    IF action.index \in 0..(Len(state) - 1)
    THEN [state EXCEPT ![action.index + 1][attribute] = action.value]
    ELSE state

\* updateState(type, parseRaw): the case reducer for a backend state event.
\* A snapshot with a malformed element is skipped; otherwise the list is
\* replaced by the parsed raw list, rs[i] being Math.random()'s value for
\* the i-th entry.
updateState(type, state, action, rs) ==
    LET rawList == action.data[type]
    IN  IF \E i \in 1..Len(rawList) : ~WellFormed(rawList[i])
        THEN state
        ELSE [i \in 1..Len(rawList) |-> parseRaw(rawList[i], rs[i])]

\* regularSlice (regular.ts lines 23-34): no reducers of its own, and the five
\* cases of extraReducers; any other action leaves the state as it is.
regularSlice(state, action, rs) ==
    CASE action.type = Pending(setActive) -> addSetter("active", state, action)
      [] action.type = Pending(setListenHost) -> addSetter("listen_host", state, action)
      [] action.type = Pending(setListenPort) -> addSetter("listen_port", state, action)
      [] action.type = STATE_RECEIVE -> updateState("regular", state, action, rs)
      [] action.type = STATE_UPDATE -> updateState("regular", state, action, rs)
      [] OTHER -> state

(* Variants of the slice with one slip each, used to see that a property   *)
(* depends on the slice.                                                   *)

\* STATE_UPDATE patches the entries the list already has and adds none.
regularReducer_UpdatePatches(state, action, rs) ==
    IF action.type = STATE_UPDATE
    THEN LET new == updateState("regular", state, action, rs)
         IN  [i \in 1..Len(state) |-> IF i <= Len(new) THEN new[i] ELSE state[i]]
    ELSE regularSlice(state, action, rs)

\* STATE_RECEIVE keeps the local entry wherever the list already has one.
regularReducer_KeepsLocal(state, action, rs) ==
    IF action.type = STATE_RECEIVE
    THEN LET new == updateState("regular", state, action, rs)
         IN  [i \in 1..Len(new) |-> IF i <= Len(state) THEN state[i] ELSE new[i]]
    ELSE regularSlice(state, action, rs)

\* The setters are registered for the thunks' fulfilled actions.
regularReducer_OnFulfilled(state, action, rs) ==
    CASE action.type = Fulfilled(setActive) -> addSetter("active", state, action)
      [] action.type = Fulfilled(setListenHost) -> addSetter("listen_host", state, action)
      [] action.type = Fulfilled(setListenPort) -> addSetter("listen_port", state, action)
      [] action.type \in {Pending(setActive), Pending(setListenHost), Pending(setListenPort)} -> state
      [] OTHER -> regularSlice(state, action, rs)

\* setListenHost is registered for the attribute listen_port.
regularReducer_WrongAttribute(state, action, rs) ==
    IF action.type = Pending(setListenHost)
    THEN addSetter("listen_port", state, action)
    ELSE regularSlice(state, action, rs)

\* setActive flips the entry's flag instead of storing the value.
regularReducer_Toggle(state, action, rs) ==
    IF action.type = Pending(setActive) /\ action.index \in 0..(Len(state) - 1)
    THEN [state EXCEPT ![action.index + 1].active = JsBool(@ = JsFalse)]
    ELSE regularSlice(state, action, rs)

\* STATE_RECEIVE parses every element without validating it.
regularReducer_NoValidation(state, action, rs) ==
    IF action.type = STATE_RECEIVE
    THEN [i \in 1..Len(action.data["regular"]) |->
            parseRaw(action.data["regular"][i], rs[i])]
    ELSE regularSlice(state, action, rs)

\* A rejected thunk puts the default value back into the entry's fields.
regularReducer_Rollback(state, action, rs) ==
    IF /\ action.type \in { Rejected(thunk) : thunk \in Thunks }
       /\ action.index \in 0..(Len(state) - 1)
    THEN [state EXCEPT ![action.index + 1] =
            Entry(JsTrue, JsUndefined, JsUndefined, @.ui_id)]
    ELSE regularSlice(state, action, rs)

\* The STATE_UPDATE case is missing.
regularReducer_NoUpdateCase(state, action, rs) ==
    IF action.type = STATE_UPDATE THEN state ELSE regularSlice(state, action, rs)

\* The setters are registered for the thunks' fulfilled actions as well.
regularReducer_AlsoOnFulfilled(state, action, rs) ==
    CASE action.type = Fulfilled(setActive) -> addSetter("active", state, action)
      [] action.type = Fulfilled(setListenHost) -> addSetter("listen_host", state, action)
      [] action.type = Fulfilled(setListenPort) -> addSetter("listen_port", state, action)
      [] OTHER -> regularSlice(state, action, rs)

\* A rejected thunk removes the entry it edited from the list.
regularReducer_RejectedRemoves(state, action, rs) ==
    IF /\ action.type \in { Rejected(thunk) : thunk \in Thunks }
       /\ action.index \in 0..(Len(state) - 1)
    THEN [i \in 1..(Len(state) - 1) |->
            IF i <= action.index THEN state[i] ELSE state[i + 1]]
    ELSE regularSlice(state, action, rs)

\* A setter builds the entry anew, keeping the ui_id and the value it was
\* given and leaving the other fields at their defaults.
regularReducer_RebuildsEntry(state, action, rs) ==
    IF /\ action.type \in { Pending(thunk) : thunk \in Thunks }
       /\ action.index \in 0..(Len(state) - 1)
    THEN LET new == regularSlice(state, action, rs)
             fresh == Entry(JsTrue, JsUndefined, JsUndefined,
                            state[action.index + 1].ui_id)
         IN  [new EXCEPT ![action.index + 1] =
                CASE action.type = Pending(setActive) ->
                        [fresh EXCEPT !.active = action.value]
                  [] action.type = Pending(setListenHost) ->
                        [fresh EXCEPT !.listen_host = action.value]
                  [] action.type = Pending(setListenPort) ->
                        [fresh EXCEPT !.listen_port = action.value]]
    ELSE regularSlice(state, action, rs)

\* A snapshot overwrites the entries position by position and leaves the
\* entries of the old list beyond its length where they are.
regularReducer_KeepsTail(state, action, rs) ==
    IF action.type \in {STATE_RECEIVE, STATE_UPDATE}
    THEN LET new == updateState("regular", state, action, rs)
         IN  IF Len(new) < Len(state)
             THEN [i \in 1..Len(state) |-> IF i <= Len(new) THEN new[i] ELSE state[i]]
             ELSE new
    ELSE regularSlice(state, action, rs)

\* The STATE_RECEIVE case is missing.
regularReducer_NoReceiveCase(state, action, rs) ==
    IF action.type = STATE_RECEIVE THEN state ELSE regularSlice(state, action, rs)

\* regular.ts line 36: the module's default export, the slice's reducer.
regularReducer(state, action, rs) == regularSlice(state, action, rs)

\* The attribute each thunk is registered for (regular.ts lines 28-30).
SetterField(thunk) ==
    CASE thunk = setActive -> "active"
      [] thunk = setListenHost -> "listen_host"
      [] thunk = setListenPort -> "listen_port"

ThunkOf(field) == CHOOSE thunk \in Thunks : SetterField(thunk) = field

\* The Mutation Request a thunk sends for an accepted call.
MutationRequest(thunk, index, value) ==
    [modeType |-> "regular", entryIndex |-> index,
     field |-> SetterField(thunk), value |-> value]

----------------------------------------------------------------------------
VARIABLES
    list,     \* the slice's state: the regular-mode list of the Local Store
    outbox,   \* Mutation Requests sent and not yet delivered, oldest first
    last,     \* the latest event: the type of its action and how it ended
    base,     \* observer: the list when the followed sequence of calls began
    calls,    \* observer: the accepted calls since then, as their requests
    lost,     \* observer: the first request that failed or was rejected
              \* since the last applied snapshot, if any
    dropped,  \* observer: the first request the backend dropped silently
              \* since the last applied snapshot, if any
    status,   \* observer: the sync status of the list (design document 4.4)
    server,   \* the backend's list of regular-mode entries, as raw data
    inbox,    \* state events pushed by the backend and not yet dispatched
    got,      \* observer: the requests the backend has received, in order
    reloads   \* observer: the number of backend-side changes of its list

vars == <<list, outbox, last, base, calls, lost, dropped, status,
          server, inbox, got, reloads>>

StateTypes == {STATE_RECEIVE, STATE_UPDATE}
PendingTypes == { Pending(thunk) : thunk \in Thunks }

\* What is kept of an event: the type of the action and how it ended.
Event(action, result) == [type |-> action.type, result |-> result]

InitStore ==
    /\ \E r \in UiIds : list = initialState(r)
    /\ outbox = <<>>
    /\ last = Event(ThunkAction("@@INIT", -1, JsUndefined), "init")

\* Nothing is followed yet, and the backend is left out of the picture.
InitObservers ==
    /\ calls = <<>>
    /\ lost = <<>>
    /\ dropped = <<>>
    /\ status = "Uninitialized"
    /\ got = <<>>
    /\ reloads = 0

InitNoBackend ==
    /\ server = <<>>
    /\ inbox = <<>>

Init ==
    /\ InitStore
    /\ base = <<>>
    /\ InitObservers
    /\ InitNoBackend

\* The followed sequence of calls begins at the initial list.
InitEdits ==
    /\ InitStore
    /\ base = list
    /\ InitObservers
    /\ InitNoBackend

\* A backend state event of the given type carrying rawList arrives.
ApplySnapshot(type, rawList) ==
    \E rs \in [1..Len(rawList) -> UiIds] :
        LET action == StateAction(type, rawList)
        IN  /\ list' = regularReducer(list, action, rs)
            /\ last' = Event(action,
                             IF \A i \in 1..Len(rawList) : WellFormed(rawList[i])
                             THEN "applied" ELSE "MalformedSnapshot")
            /\ UNCHANGED outbox

Receive == \E rawList \in RawLists : ApplySnapshot(STATE_RECEIVE, rawList)

Update == \E rawList \in RawLists : ApplySnapshot(STATE_UPDATE, rawList)

\* setField without the lookup: the call is always accepted.
SetField_NoLookup(thunk, index, value) ==
    LET action == ThunkAction(Pending(thunk), index, value)
    IN  /\ Len(outbox) < MaxInFlight
        /\ list' = regularReducer(list, action, <<>>)
        /\ outbox' = Append(outbox, MutationRequest(thunk, index, value))
        /\ last' = Event(action, "applied")

\* setField with the request put ahead of the requests still on their way.
SetField_JumpsQueue(thunk, index, value) ==
    LET action == ThunkAction(Pending(thunk), index, value)
    IN  \/ /\ index \notin 0..(Len(list) - 1)
           /\ last' = Event(action, "UnknownEntry")
           /\ UNCHANGED <<list, outbox>>
        \/ /\ index \in 0..(Len(list) - 1)
           /\ Len(outbox) < MaxInFlight
           /\ list' = regularReducer(list, action, <<>>)
           /\ outbox' = <<MutationRequest(thunk, index, value)>> \o outbox
           /\ last' = Event(action, "applied")

\* setField(modeType, entryIndex, value) for one thunk: an index outside the
\* list fails with UnknownEntry; otherwise the pending action is dispatched
\* and the Mutation Request is put on the outbound channel.
SetField(thunk, index, value) ==
    LET action == ThunkAction(Pending(thunk), index, value)
    IN  \/ /\ index \notin 0..(Len(list) - 1)
           /\ last' = Event(action, "UnknownEntry")
           /\ UNCHANGED <<list, outbox>>
        \/ /\ index \in 0..(Len(list) - 1)
           /\ Len(outbox) < MaxInFlight
           /\ list' = regularReducer(list, action, <<>>)
           /\ outbox' = Append(outbox, MutationRequest(thunk, index, value))
           /\ last' = Event(action, "applied")

SetActive ==
    \E index \in 0..MaxLen, value \in ThunkValues(setActive) :
        SetField(setActive, index, value)

SetListenHost ==
    \E index \in 0..MaxLen, value \in ThunkValues(setListenHost) :
        SetField(setListenHost, index, value)

SetListenPort ==
    \E index \in 0..MaxLen, value \in ThunkValues(setListenPort) :
        SetField(setListenPort, index, value)

\* The thunk of the oldest request ends: its lifecycle action is dispatched.
Settle(lifecycle, result) ==
    /\ outbox # <<>>
    /\ LET req == Head(outbox)
           action == ThunkAction(lifecycle, req.entryIndex, req.value)
       IN  /\ list' = regularReducer(list, action, <<>>)
           /\ last' = Event(action, result)
    /\ outbox' = Tail(outbox)

\* The send of the oldest request fails: the thunk is rejected.
SendFail ==
    /\ outbox # <<>>
    /\ Settle(Rejected(ThunkOf(Head(outbox).field)), "ChannelUnavailable")

\* The oldest request reaches the backend, which accepts it or rejects it.
Deliver ==
    /\ outbox # <<>>
    /\ \/ Settle(Fulfilled(ThunkOf(Head(outbox).field)), "accepted")
       \/ Settle(Rejected(ThunkOf(Head(outbox).field)), "rejected")

\* The backend drops the oldest request silently: the request is gone, the
\* thunk does not end and no action is dispatched.
Drop ==
    /\ outbox # <<>>
    /\ outbox' = Tail(outbox)
    /\ last' = [type |-> ThunkOf(Head(outbox).field), result |-> "dropped"]
    /\ UNCHANGED list

----------------------------------------------------------------------------
(* Observers.  They read the step just taken and change nothing of it. *)

SnapshotApplied == last'.type \in StateTypes /\ last'.result = "applied"
CallApplied == last'.type \in PendingTypes /\ last'.result = "applied"

SamePair(r1, r2) == r1.entryIndex = r2.entryIndex /\ r1.field = r2.field

\* The observers and the backend variables a specification does not use.
NoBackend == UNCHANGED <<server, inbox, got, reloads>>

\* Without the backend, at most MaxOutbox requests are in flight.
FewInFlight == Len(outbox') <= MaxOutbox

Idle ==
    /\ UNCHANGED <<base, calls, lost, dropped, status>>
    /\ NoBackend
    /\ FewInFlight

\* Follows the accepted calls made since the last applied snapshot, at most
\* MaxCalls of them.
FollowCalls ==
    /\ base' = IF SnapshotApplied THEN list' ELSE base
    /\ calls' = IF SnapshotApplied THEN <<>>
                ELSE IF CallApplied THEN Append(calls, outbox'[Len(outbox')])
                ELSE calls
    /\ Len(calls') <= MaxCalls
    /\ UNCHANGED <<lost, dropped, status>>
    /\ NoBackend
    /\ FewInFlight

\* Follows the first request whose send fails, or which the backend rejects,
\* while the list holds the value its call wrote: from that step until a
\* snapshot is applied or an accepted call writes the same field of the same
\* entry.
FollowLost ==
    /\ UNCHANGED <<base, calls, dropped, status>>
    /\ NoBackend
    /\ FewInFlight
    /\ lost' =
        IF SnapshotApplied THEN <<>>
        ELSE IF lost # <<>> THEN
            IF CallApplied /\ SamePair(lost[1], outbox'[Len(outbox')])
            THEN <<>> ELSE lost
        ELSE IF /\ last'.result \in {"ChannelUnavailable", "rejected"}
                /\ Head(outbox).entryIndex < Len(list)
                /\ list[Head(outbox).entryIndex + 1][Head(outbox).field]
                     = Head(outbox).value
             THEN <<Head(outbox)>>
             ELSE lost

\* Follows the first request the backend drops silently while the list holds
\* the value its call wrote: from that step until a snapshot is applied or an
\* accepted call writes the same field of the same entry.
FollowDropped ==
    /\ UNCHANGED <<base, calls, lost, status>>
    /\ NoBackend
    /\ FewInFlight
    /\ dropped' =
        IF SnapshotApplied THEN <<>>
        ELSE IF dropped # <<>> THEN
            IF CallApplied /\ SamePair(dropped[1], outbox'[Len(outbox')])
            THEN <<>> ELSE dropped
        ELSE IF /\ last'.result = "dropped"
                /\ Head(outbox).entryIndex < Len(list)
                /\ list[Head(outbox).entryIndex + 1][Head(outbox).field]
                     = Head(outbox).value
             THEN <<Head(outbox)>>
             ELSE dropped

\* Follows the sync status of the list (design document 4.4): Synced from
\* the first applied snapshot on, PendingLocalEdit from an accepted call in
\* Synced until the next applied snapshot.  base is the list the most
\* recently applied snapshot left.
FollowStatus ==
    /\ base' = IF SnapshotApplied THEN list' ELSE base
    /\ status' = IF SnapshotApplied THEN "Synced"
                 ELSE IF CallApplied /\ status = "Synced" THEN "PendingLocalEdit"
                 ELSE status
    /\ UNCHANGED <<calls, lost, dropped>>
    /\ NoBackend
    /\ FewInFlight

----------------------------------------------------------------------------
Next ==
    \/ Receive /\ Idle
    \/ Update /\ Idle
    \/ SetActive /\ Idle
    \/ SetListenHost /\ Idle
    \/ SetListenPort /\ Idle
    \/ SendFail /\ Idle
    \/ Deliver /\ Idle

\* The store, its setters and its channel.
Spec == Init /\ [][Next]_vars

NextEdits ==
    \/ Receive /\ FollowCalls
    \/ Update /\ FollowCalls
    \/ SetActive /\ FollowCalls
    \/ SetListenHost /\ FollowCalls
    \/ SetListenPort /\ FollowCalls
    \/ SendFail /\ FollowCalls
    \/ Deliver /\ FollowCalls

\* The same, with the calls since the last applied snapshot followed.
SpecEdits == InitEdits /\ [][NextEdits]_vars

NextLost ==
    \/ Receive /\ FollowLost
    \/ Update /\ FollowLost
    \/ SetActive /\ FollowLost
    \/ SetListenHost /\ FollowLost
    \/ SetListenPort /\ FollowLost
    \/ SendFail /\ FollowLost
    \/ Deliver /\ FollowLost

\* The same, with one call followed through the failure of its request.
SpecLost == Init /\ [][NextLost]_vars

NextDrop ==
    \/ Receive /\ FollowDropped
    \/ Update /\ FollowDropped
    \/ SetActive /\ FollowDropped
    \/ SetListenHost /\ FollowDropped
    \/ SetListenPort /\ FollowDropped
    \/ SendFail /\ FollowDropped
    \/ Deliver /\ FollowDropped
    \/ Drop /\ FollowDropped

\* The same with a backend that may drop a request silently, and one call
\* followed through the drop of its request.
SpecDrop == Init /\ [][NextDrop]_vars

NextStatus ==
    \/ Receive /\ FollowStatus
    \/ Update /\ FollowStatus
    \/ SetActive /\ FollowStatus
    \/ SetListenHost /\ FollowStatus
    \/ SetListenPort /\ FollowStatus
    \/ SendFail /\ FollowStatus
    \/ Deliver /\ FollowStatus

\* The same, with the sync status of the list followed.
SpecStatus == Init /\ [][NextStatus]_vars

----------------------------------------------------------------------------
(* The store with its backend: ordered, reliable channels both ways and a   *)
(* backend that applies the requests it receives, pushing its list after    *)
(* each one it applied and after each change of its own.                    *)

\* A state event on its way to the store.
Pushed(type, rawList) == [type |-> type, data |-> rawList]

\* The backend's list with the request's value written into the request's
\* field of the entry at the request's index.
Applied(rawList, request) ==
    [rawList EXCEPT ![request.entryIndex + 1][request.field] = request.value]

\* What is kept of a request the backend received: the request, and whether
\* its index was inside the backend's list.
Received(request, rawList) ==
    [request |-> request,
     applied |-> request.entryIndex \in 0..(Len(rawList) - 1)]

\* The lists the backend starts with: none, one and two entries, so shorter
\* than, as long as and longer than the store's initial list.
ServerLists ==
    { <<>>,
      <<Raw(JsFalse, JsHost, JsPort)>>,
      <<Raw(JsTrue, JsUndefined, JsUndefined), Raw(JsFalse, JsHost, JsPort)>> }

\* The backend holds some list, and its state event for the connecting
\* client is on its way.
InitSync ==
    /\ InitStore
    /\ base = <<>>
    /\ InitObservers
    /\ server \in ServerLists
    /\ inbox = <<Pushed(STATE_RECEIVE, server)>>

\* The oldest request reaches the backend.  A request whose index is inside
\* the backend's list is applied, the new list is pushed and the thunk is
\* fulfilled; any other request is refused and the thunk is rejected.
BackendReceive ==
    /\ outbox # <<>>
    /\ got' = Append(got, Received(Head(outbox), server))
    /\ IF Head(outbox).entryIndex \in 0..(Len(server) - 1)
       THEN /\ Settle(Fulfilled(ThunkOf(Head(outbox).field)), "accepted")
            /\ server' = Applied(server, Head(outbox))
            /\ inbox' = Append(inbox, Pushed(STATE_UPDATE, server'))
       ELSE /\ Settle(Rejected(ThunkOf(Head(outbox).field)), "rejected")
            /\ UNCHANGED <<server, inbox>>
    /\ UNCHANGED <<base, calls, lost, dropped, status, reloads>>

\* The oldest state event on its way reaches the store and is dispatched.
Push ==
    /\ inbox # <<>>
    /\ ApplySnapshot(Head(inbox).type, Head(inbox).data)
    /\ inbox' = Tail(inbox)
    /\ UNCHANGED <<base, calls, lost, dropped, status, server, got, reloads>>

\* The backend's list changes on the backend's side (its first entry is
\* removed, or an entry is added at its end), and the new list is pushed.
Reload ==
    /\ reloads < MaxReloads
    /\ reloads' = reloads + 1
    /\ \/ /\ server # <<>>
          /\ server' = Tail(server)
       \/ /\ Len(server) < MaxLen
          /\ server' = Append(server, Raw(JsTrue, JsUndefined, JsUndefined))
    /\ inbox' = Append(inbox, Pushed(STATE_UPDATE, server'))
    /\ UNCHANGED <<list, outbox, last, base, calls, lost, dropped, status, got>>

\* Follows every accepted call, at most MaxCalls of them.
FollowSent ==
    /\ calls' = IF CallApplied THEN Append(calls, outbox'[Len(outbox')]) ELSE calls
    /\ Len(calls') <= MaxCalls
    /\ UNCHANGED <<base, lost, dropped, status, server, inbox, got, reloads>>

NextSync ==
    \/ SetActive /\ FollowSent
    \/ SetListenHost /\ FollowSent
    \/ SetListenPort /\ FollowSent
    \/ BackendReceive
    \/ Push

\* Ordered reliable channels: a request on its way reaches the backend, and a
\* state event on its way reaches the store.
FairSync == WF_vars(BackendReceive) /\ WF_vars(Push)

SpecSync == InitSync /\ [][NextSync]_vars /\ FairSync

NextReload ==
    \/ SetActive /\ FollowSent
    \/ SetListenHost /\ FollowSent
    \/ SetListenPort /\ FollowSent
    \/ BackendReceive
    \/ Push
    \/ Reload

\* The same, with a backend whose list may also change on its own side.
SpecReload == InitSync /\ [][NextReload]_vars

----------------------------------------------------------------------------
(* Properties. *)

Holds(request) ==
    /\ request.entryIndex \in 0..(Len(list) - 1)
    /\ list[request.entryIndex + 1][request.field] = request.value

Draws(rawList) == [1..Len(rawList) -> UiIds]

\* C1: in every reachable state, a STATE_RECEIVE or STATE_UPDATE snapshot
\* carrying a well-formed raw list L (empty, shorter or longer than the list)
\* leaves the list with exactly Len(L) entries.
SnapshotLength ==
    \A type \in StateTypes, L \in GoodLists : \A rs \in Draws(L) :
        Len(regularReducer(list, StateAction(type, L), rs)) = Len(L)

\* The empty list was applied by STATE_UPDATE while a request of an earlier
\* edit of an entry was still on its way.
SnapshotLengthWitness ==
    /\ last = [type |-> STATE_UPDATE, result |-> "applied"]
    /\ Len(list) = 0
    /\ outbox # <<>>

\* C2: in every reachable state, whatever edits were made before, the list a
\* well-formed snapshot leaves has at every position i the field values of
\* parseRaw(L[i]).
SnapshotOverridesEdits ==
    \A type \in StateTypes, L \in GoodLists : \A rs \in Draws(L) :
        LET new == regularReducer(list, StateAction(type, L), rs)
        IN  \A i \in 1..Len(L) :
                /\ i \in DOMAIN new
                /\ \A f \in Fields : new[i][f] = parseRaw(L[i], rs[i])[f]

\* A STATE_RECEIVE snapshot was applied and the list does not hold the value
\* of an edit whose request is still on its way: the edit was discarded.
SnapshotOverridesEditsWitness ==
    /\ last = [type |-> STATE_RECEIVE, result |-> "applied"]
    /\ outbox # <<>>
    /\ Head(outbox).entryIndex < Len(list)
    /\ ~Holds(Head(outbox))

\* C3: in the state an accepted setter call leaves, the list holds the new
\* value while the call's request is still on the outbound channel.
OptimisticAtCall ==
    (last.type \in PendingTypes /\ last.result = "applied") =>
        /\ outbox # <<>>
        /\ Pending(ThunkOf(outbox[Len(outbox)].field)) = last.type
        /\ Holds(outbox[Len(outbox)])

\* setActive(0, false) has just been called: the entry is inactive and the
\* request is the one on the channel.
OptimisticAtCallWitness ==
    /\ last = [type |-> Pending(setActive), result |-> "applied"]
    /\ outbox = <<MutationRequest(setActive, 0, JsFalse)>>
    /\ list[1].active = JsFalse

\* The list that a sequence of accepted calls leaves of the list b: every
\* field of every entry has the value of the last call that targeted it, and
\* b's value where none did; nothing else differs from b.
LastCallTo(cs, index, field) ==
    LET hits == { k \in 1..Len(cs) : cs[k].entryIndex = index /\ cs[k].field = field }
    IN  IF hits = {} THEN 0 ELSE CHOOSE k \in hits : \A h \in hits : h <= k

Replay(b, cs) ==
    [i \in 1..Len(b) |->
        LET Val(f) == IF LastCallTo(cs, i - 1, f) = 0 THEN b[i][f]
                      ELSE cs[LastCallTo(cs, i - 1, f)].value
        IN  Entry(Val("active"), Val("listen_host"), Val("listen_port"), b[i].ui_id)]

\* C4: after any sequence of accepted setter calls with no snapshot applied in
\* between, the list is the list the sequence began with, with the value of
\* the last call for every (entry, field) a call targeted.
CumulativeEdits == list = Replay(base, calls)

\* Two calls wrote different values to the same field of the same entry of a
\* two-entry list.
CumulativeEditsWitness ==
    /\ Len(calls) = 2
    /\ SamePair(calls[1], calls[2])
    /\ calls[1].value # calls[2].value
    /\ Len(list) = 2

\* C5: an accepted setter call that repeats the accepted call before it (same
\* field, index and value, no snapshot applied in between) leaves the list as
\* the first call left it.
RepeatedCall ==
    [][(calls # <<>> /\ calls' = Append(calls, calls[Len(calls)])) => list' = list]_vars

\* The same call was accepted twice, and the first one had changed the list.
RepeatedCallWitness ==
    /\ Len(calls) = 2
    /\ calls[1] = calls[2]
    /\ list # base
    /\ last.type \in PendingTypes /\ last.result = "applied"

\* C6: a setter call with an index outside the list fails with UnknownEntry
\* and changes neither the list nor the outbound channel.
UnknownEntryNoEffect ==
    [][\A thunk \in Thunks, index \in 0..MaxLen :
        \A value \in ThunkValues(thunk) :
            (index \notin 0..(Len(list) - 1) /\ SetField(thunk, index, value)) =>
                /\ last'.result = "UnknownEntry"
                /\ list' = list
                /\ outbox' = outbox]_vars

\* A call failed with UnknownEntry on a one-entry list, nothing on the channel.
UnknownEntryNoEffectWitness ==
    /\ last.result = "UnknownEntry"
    /\ Len(list) = 1
    /\ outbox = <<>>

\* C7: in every reachable state, a snapshot with an element that fails
\* parseRaw's validation leaves the list exactly as it was.
MalformedSkipped ==
    \A type \in StateTypes, L \in BadLists : \A rs \in Draws(L) :
        regularReducer(list, StateAction(type, L), rs) = list

\* A malformed snapshot has just been skipped on a list of two entries, one
\* of them edited (the request is still on its way).
MalformedSkippedWitness ==
    /\ last.result = "MalformedSnapshot"
    /\ Len(list) = 2
    /\ outbox # <<>>
    /\ Holds(Head(outbox))

\* C8, as amended: the value of a call whose send failed or whose request the
\* backend rejected stays in the list until a snapshot is applied or a later
\* accepted call writes the same field of the same entry.
LostEditStands == lost # <<>> => Holds(lost[1])

\* The value is still there after a later malformed snapshot.
LostEditStandsWitness ==
    /\ lost # <<>>
    /\ last.result = "MalformedSnapshot"

\* C8, as stated: the value stays in the list in every later state until a
\* snapshot is applied.
LostEditStandsUntilSnapshot ==
    [][(lost # <<>> /\ ~SnapshotApplied) =>
        /\ lost[1].entryIndex \in 0..(Len(list') - 1)
        /\ list'[lost[1].entryIndex + 1][lost[1].field] = lost[1].value]_vars

\* C9: in every reachable state and for every raw list, STATE_RECEIVE and
\* STATE_UPDATE leave the same list (the same draws of Math.random() given).
ReceiveUpdateAgree ==
    \A L \in RawLists : \A rs \in Draws(L) :
        regularReducer(list, StateAction(STATE_RECEIVE, L), rs)
            = regularReducer(list, StateAction(STATE_UPDATE, L), rs)

\* STATE_UPDATE has left a list of two entries that STATE_RECEIVE leaves too.
ReceiveUpdateAgreeWitness ==
    /\ last = [type |-> STATE_UPDATE, result |-> "applied"]
    /\ Len(list) = 2
    /\ \E L \in GoodLists : \E rs \in Draws(L) :
        list = regularReducer(<<>>, StateAction(STATE_RECEIVE, L), rs)

\* C10: no two entries of the list have the same ui_id.
UniqueUiIds ==
    \A i, j \in 1..Len(list) : i # j => list[i].ui_id # list[j].ui_id

\* The list and the backend's list have the same length and the same field
\* values at every position.
Consistent ==
    /\ Len(list) = Len(server)
    /\ \A i \in 1..Len(list) : \A f \in Fields : list[i][f] = server[i][f]

\* C11: with ordered reliable channels and a backend that applies the
\* requests it receives and pushes its list after each, after finitely many
\* setter calls the list eventually has, and keeps, the backend's field
\* values; and after a single call, which the backend applied, the call's
\* value is eventually in the list for good.
EventuallyConsistent ==
    <>[](/\ Consistent
         /\ (Len(calls) = 1 /\ \A k \in 1..Len(got) : got[k].applied) =>
                Holds(calls[1]))

\* A single call was made, the backend applied its request, and the list
\* has the backend's values, the call's value among them.
EventuallyConsistentWitness ==
    /\ Len(calls) = 1
    /\ Len(got) = 1 /\ got[1].applied
    /\ inbox = <<>>
    /\ ~(last.type = STATE_RECEIVE)
    /\ Consistent
    /\ Holds(calls[1])

\* Two lists have the same length and the same field values at every position.
SameFields(l1, l2) ==
    /\ Len(l1) = Len(l2)
    /\ \A i \in 1..Len(l1) : \A f \in Fields : l1[i][f] = l2[i][f]

OtherStep ==
    last'.result \in {"accepted", "rejected", "ChannelUnavailable", "dropped",
                      "UnknownEntry", "MalformedSnapshot"}

\* The list a step leaves holds the request's value.
HoldsNext(request) ==
    /\ request.entryIndex \in 0..(Len(list') - 1)
    /\ list'[request.entryIndex + 1][request.field] = request.value

\* C13, as amended: the list changes only in the step of an accepted call or
\* of an applied snapshot (delivery, acknowledgement, rejection and silent
\* drop of a request leave it unchanged), so the value of a call whose request
\* was dropped stays in the list until a snapshot is applied or an accepted
\* call writes the same field of the same entry.
ChangedOnlyByCallOrSnapshot ==
    [][/\ OtherStep => list' = list
       /\ list' # list => (CallApplied \/ SnapshotApplied)
       /\ dropped' # <<>> => HoldsNext(dropped'[1])]_vars

\* The request of an edit was dropped, and the edit is still in the list
\* after the request of a later edit was acknowledged.
ChangedOnlyByCallOrSnapshotWitness ==
    /\ dropped # <<>>
    /\ Holds(dropped[1])
    /\ last.result = "accepted"

\* C13, as stated: the same, the value staying in the list in every later
\* state in which no snapshot has been applied.
DroppedStandsUntilSnapshot ==
    [][/\ OtherStep => list' = list
       /\ list' # list => (CallApplied \/ SnapshotApplied)
       /\ (dropped # <<>> /\ ~SnapshotApplied) => HoldsNext(dropped[1])]_vars

\* C14: an accepted setter call for field f of the entry at index i leaves the
\* length of the list, every other entry, every other field of that entry
\* and every ui_id (that entry's too) as they were.
SetterFrame ==
    [][\A thunk \in Thunks, index \in 0..MaxLen :
        \A value \in ThunkValues(thunk) :
            (index \in 0..(Len(list) - 1) /\ SetField(thunk, index, value)) =>
                /\ Len(list') = Len(list)
                /\ \A j \in 1..Len(list) :
                    /\ list'[j].ui_id = list[j].ui_id
                    /\ \A g \in Fields :
                        (j # index + 1 \/ g # SetterField(thunk)) =>
                            list'[j][g] = list[j][g]
                /\ list'[index + 1][SetterField(thunk)] = value]_vars

\* setListenHost(1, undefined) was accepted on a list of two entries and
\* has cleared the second entry's host; the entry is still inactive and still
\* has its port.
SetterFrameWitness ==
    /\ last = [type |-> Pending(setListenHost), result |-> "applied"]
    /\ outbox = <<MutationRequest(setListenHost, 1, JsUndefined)>>
    /\ Len(list) = 2
    /\ list[2].active = JsFalse
    /\ list[2].listen_port = JsPort
    /\ list[2].listen_host = JsUndefined

\* The requests the backend has received, in the order it received them.
GotRequests == [k \in 1..Len(got) |-> got[k].request]

\* C15: every accepted setter call puts exactly one request on the outbound
\* channel, behind the requests already there, carrying the call's field,
\* index and value; and the requests the backend has received followed by the
\* requests still on their way are the accepted calls in call order, so the
\* backend receives them in that order.
RequestsInCallOrder ==
    [][/\ \A thunk \in Thunks, index \in 0..MaxLen :
            \A value \in ThunkValues(thunk) :
                (index \in 0..(Len(list) - 1) /\ SetField(thunk, index, value)) =>
                    outbox' = Append(outbox,
                        [modeType |-> "regular", entryIndex |-> index,
                         field |-> IF thunk = setActive THEN "active"
                                   ELSE IF thunk = setListenHost THEN "listen_host"
                                   ELSE "listen_port",
                         value |-> value])
       /\ calls' = GotRequests' \o outbox'
       /\ got' # got => got'[Len(got')].request = calls[Len(got')]]_vars

\* Two different calls were accepted, and the backend has received the
\* request of the first and then the request of the second.
RequestsInCallOrderWitness ==
    /\ Len(calls) = 2
    /\ calls[1] # calls[2]
    /\ GotRequests = calls
    /\ outbox = <<>>

\* C16: under every interleaving of setter calls, the arrival of their
\* requests at the backend and incoming state events, every step leaves the
\* list whole: a state event leaves exactly the field values of its raw list
\* (no entry of the old list among them), an accepted call leaves the list
\* it found with its one value written, and no other step touches the list,
\* so no call is applied to a list after the list was replaced.
WholeTransitions ==
    [][/\ SnapshotApplied => SameFields(list', Head(inbox).data)
       /\ CallApplied =>
            list' = [list EXCEPT ![outbox'[Len(outbox')].entryIndex + 1]
                                  [outbox'[Len(outbox')].field] =
                                      outbox'[Len(outbox')].value]
       /\ ~(SnapshotApplied \/ CallApplied) => list' = list]_vars

\* The backend's first state event has replaced the list while the request of
\* an edit is on its way; the entry that was edited is not in the new list.
WholeTransitionsWitness ==
    /\ last = [type |-> STATE_RECEIVE, result |-> "applied"]
    /\ outbox # <<>>
    /\ Head(outbox).entryIndex >= Len(list)
    /\ Consistent

\* C17: the entries a snapshot puts into the list carry none of the ui_ids
\* of the entries it removes from the list (all the entries the list had).
UiIdNeverReused ==
    [][SnapshotApplied =>
        \A i \in 1..Len(list'), j \in 1..Len(list) :
            list'[i].ui_id # list[j].ui_id]_vars

\* C18: every request of an accepted call has, when the backend receives it,
\* an index inside the backend's list.
RequestStillDesignates == \A k \in 1..Len(got) : got[k].applied

====
